---- MODULE Spec2Model ----
(***************************************************************************)
(* Analysis session controller of the ContractAI frontend.                 *)
(*                                                                         *)
(* The repository holds three versions of the AnalysisContent component:   *)
(*   "abort"   - AbortController passed to the API client                  *)
(*   "mounted" - isMounted flag, signal never handed to the client         *)
(*   "mock"    - no cleanup, raw result stored, MOCK_ANALYSIS fallback     *)
(* The model runs each of them through the same environment: navigation    *)
(* (mount / search-parameter change / unmount) and a transport that        *)
(* settles every request in any order.                                     *)
(*                                                                         *)
(* Further specifications of the same module:                              *)
(*   SpecAdmit    - validateFile of DocumentUploader on one candidate      *)
(*   SpecUploader - DocumentUploader handlers and the Home page            *)
(*   SpecSanitize - sanitizeText, sanitizeHtml, escapeHtml on one value    *)
(***************************************************************************)
EXTENDS Integers, Sequences, FiniteSets, TLC

(***************************************************************************)
(* Bounds                                                                  *)
(***************************************************************************)
\* runs of the AnalysisContent effect
MaxStarts == 2

\* files in one drop or one selection
MaxDropped == 2

\* calls of api.uploadDocument
MaxUploads == 2

\* tokens in a string given to the sanitizers
MaxLen == 3

\* clipboard writes and indicator timers outstanding at once
MaxShares == 2

\* uses of the Try Again button
MaxRetries == 3

(***************************************************************************)
(* JavaScript values.  A string is a sequence of tokens: a token is a      *)
(* chunk of plain text, a markup tag, a script element, a bare "<", the    *)
(* chunk "b>" or a chunk with a character reference ("&lt;", "b&gt;").     *)
(***************************************************************************)
Null == [k |-> "null", v |-> <<>>]

Undefined == [k |-> "undef", v |-> <<>>]

Str(s) == [k |-> "str", v |-> s]

Num(n) == [k |-> "num", v |-> <<n>>]

Arr(a) == [k |-> "arr", v |-> a]

Obj(o) == [k |-> "obj", v |-> <<o>>]

Truthy(x) ==
  \/ x.k = "str" /\ x.v # <<>>
  \/ x.k = "num" /\ x.v # <<0>>
  \/ x.k \in {"arr", "obj"}

Or(x, y) == IF Truthy(x) THEN x ELSE y

(***************************************************************************)
(* lib/sanitize                                                            *)
(***************************************************************************)
\* tokens that hold a "<" character
MarkupTokens == {"<b>", "</b>", "<script>alert(1)</script>", "<"}

TEXT_ONLY_CONFIG == [ALLOWED_TAGS |-> {}, ALLOWED_ATTR |-> {}]

BASIC_HTML_CONFIG ==
  [ALLOWED_TAGS |-> {"b", "i", "em", "strong", "br"}, ALLOWED_ATTR |-> {}]

Node(t, v) == [t |-> t, v |-> v]

\* the HTML parser on one token: tags, the script element with its content,
\* character references decoded to the text they stand for, other text
ParseToken(tok) ==
  CASE tok = "<b>" -> Node("open", "b")
    [] tok = "</b>" -> Node("close", "b")
    [] tok = "<script>alert(1)</script>" -> Node("script", "alert(1)")
    [] tok = "&lt;" -> Node("text", "<")
    [] tok = "b&gt;" -> Node("text", "b>")
    [] OTHER -> Node("text", tok)

\* the HTML parser: a "<" directly followed by "b>" is the start tag <b>
RECURSIVE Parse(_)
Parse(s) ==
  IF s = <<>> THEN <<>>
  ELSE IF Len(s) >= 2 /\ s[1] = "<" /\ s[2] = "b>"
       THEN <<Node("open", "b")>> \o Parse(Tail(Tail(s)))
  ELSE <<ParseToken(Head(s))>> \o Parse(Tail(s))

\* a serializer that writes text nodes without character references
SerializeTextRaw(v) == v

\* innerHTML of a text node
SerializeText(v) ==
  CASE v = "<" -> "&lt;"
    [] v = "b>" -> "b&gt;"
    [] OTHER -> v

\* DOMPurify on the parsed body: elements outside ALLOWED_TAGS are removed
\* and their content kept, script elements are removed with their content,
\* end tags without a start tag are ignored by the parser, elements still
\* open at the end (open of them) are closed by the serializer
RECURSIVE SanitizeNodes(_, _, _)
SanitizeNodes(nodes, cfg, open) ==
  IF nodes = <<>> THEN [i \in 1..open |-> "</b>"]
  ELSE LET n == Head(nodes)
           rest == Tail(nodes)
       IN CASE n.t = "text" -> <<SerializeText(n.v)>> \o SanitizeNodes(rest, cfg, open)
            [] n.t = "script" -> SanitizeNodes(rest, cfg, open)
            [] n.t = "open" ->
                 IF n.v \in cfg.ALLOWED_TAGS
                 THEN <<"<b>">> \o SanitizeNodes(rest, cfg, open + 1)
                 ELSE SanitizeNodes(rest, cfg, open)
            [] OTHER ->
                 IF n.v \in cfg.ALLOWED_TAGS /\ open > 0
                 THEN <<"</b>">> \o SanitizeNodes(rest, cfg, open - 1)
                 ELSE SanitizeNodes(rest, cfg, open)

\* DOMPurify.sanitize(dirty, cfg): a string without "<" is returned as it is
Purify(s, cfg) ==
  IF \A i \in 1..Len(s) : s[i] \notin MarkupTokens THEN s
  ELSE SanitizeNodes(Parse(s), cfg, 0)

\* sanitizeText handing null through instead of ""
sanitizeTextKeepsNull(text) ==
  IF ~Truthy(text) THEN text ELSE Str(Purify(text.v, TEXT_ONLY_CONFIG))

sanitizeText(text) ==
  IF ~Truthy(text) THEN Str(<<>>) ELSE Str(Purify(text.v, TEXT_ONLY_CONFIG))

sanitizeHtml(html) ==
  IF ~Truthy(html) THEN Str(<<>>) ELSE Str(Purify(html.v, BASIC_HTML_CONFIG))

\* the five replace calls of escapeHtml on one token
EscapeToken(tok) ==
  CASE tok = "<b>" -> "&lt;b&gt;"
    [] tok = "</b>" -> "&lt;/b&gt;"
    [] tok = "<script>alert(1)</script>" -> "&lt;script&gt;alert(1)&lt;/script&gt;"
    [] tok = "<" -> "&lt;"
    [] tok = "b>" -> "b&gt;"
    [] tok = "&lt;" -> "&amp;lt;"
    [] tok = "b&gt;" -> "b&amp;gt;"
    [] OTHER -> tok

escapeHtml(text) ==
  IF ~Truthy(text) THEN Str(<<>>)
  ELSE Str([i \in 1..Len(text.v) |-> EscapeToken(text.v[i])])

(***************************************************************************)
(* AnalysisContent: module-level helpers                                   *)
(***************************************************************************)
RiskLevel == {Str(<<"low">>), Str(<<"medium">>), Str(<<"high">>), Str(<<"critical">>)}

Recommendation == {Str(<<"SIGN">>), Str(<<"NEGOTIATE">>), Str(<<"DO_NOT_SIGN">>)}

RISK_SCORES(level) ==
  CASE level = Str(<<"low">>) -> Num(25)
    [] level = Str(<<"medium">>) -> Num(50)
    [] level = Str(<<"high">>) -> Num(75)
    [] level = Str(<<"critical">>) -> Num(95)
    [] OTHER -> Undefined

sanitizeClause(clause) ==
  [clause EXCEPT
     !.clause_id = sanitizeText(clause.clause_id),
     !.original_text = sanitizeText(clause.original_text),
     !.topic = sanitizeText(clause.topic),
     !.risk_explanation = sanitizeText(clause.risk_explanation),
     !.law_reference = IF Truthy(clause.law_reference)
                       THEN sanitizeText(clause.law_reference) ELSE Null,
     !.suggested_rewrite = sanitizeText(clause.suggested_rewrite)]

MapClauses(cs) == [i \in 1..Len(cs) |-> sanitizeClause(cs[i])]

\* analysis.clauses.map throws a TypeError unless clauses is an array
sanitizeThrows(a) == a.clauses.k # "arr"

sanitizeAnalysis(a) ==
  [a EXCEPT
     !.contract_id = sanitizeText(a.contract_id),
     !.contract_name = sanitizeText(a.contract_name),
     !.summary = sanitizeText(a.summary),
     !.clauses = Arr(MapClauses(a.clauses.v))]

sanitizeAnalysisMounted(a) ==
  [a EXCEPT
     !.contract_id = sanitizeText(a.contract_id),
     !.contract_name = sanitizeText(a.contract_name),
     !.summary = sanitizeText(a.summary),
     !.recommendation = sanitizeText(a.recommendation),
     !.clauses = Arr(MapClauses(a.clauses.v))]


\* mock-fallback version: module-level demo data (texts abbreviated to one chunk)
MockClause(id, topic, level, law, rewrite) ==
  [clause_id |-> Str(<<id>>), original_text |-> Str(<<"original text">>),
   topic |-> Str(<<topic>>), risk_level |-> Str(<<level>>),
   risk_explanation |-> Str(<<"explanation">>), law_reference |-> law,
   suggested_rewrite |-> rewrite]

MOCK_ANALYSIS ==
  [contract_id |-> Str(<<"demo">>),
   contract_name |-> Str(<<"Demo Contract Analysis">>),
   overall_risk |-> Str(<<"high">>),
   summary |-> Str(<<"This contract contains 3 problematic clauses">>),
   clauses |-> Arr(<<
     MockClause("CLAUSE 3", "rent_adjustment", "critical",
                Str(<<"Tenant Protection Act - Section 18">>), Str(<<"rewrite">>)),
     MockClause("CLAUSE 4", "property_inspection", "high",
                Str(<<"Civil Code - Article 1335">>), Str(<<"rewrite">>)),
     MockClause("CLAUSE 6", "security_deposit", "high",
                Str(<<"Tenant Protection Act - Section 38">>), Str(<<"rewrite">>)),
     MockClause("CLAUSE 1", "subject_matter", "low", Null, Str(<<>>))>>),
   total_issues |-> Num(3),
   recommendation |-> Str(<<"DO_NOT_SIGN">>),
   analyzed_at |-> Str(<<"2025-01-01T00:00:00.000Z">>)]

(***************************************************************************)
(* lib/api: ApiClient                                                      *)
(***************************************************************************)
Return(v) == [ok |-> TRUE, value |-> v, name |-> "", message |-> Undefined]

Throw(n, m) == [ok |-> FALSE, value |-> Undefined, name |-> n, message |-> m]

\* JSON.stringify drops the undefined identifier from the body
analyzeContract(source, cId, uId, signal) ==
  [source |-> source, contract_id |-> cId, upload_id |-> uId, signal |-> signal]

NoRequest ==
  [source |-> "", contract_id |-> Undefined, upload_id |-> Undefined, signal |-> FALSE]

\* what the awaited request() call yields for a transport outcome o
request(o) ==
  CASE o.kind = "network" -> Throw("TypeError", Str(<<"Failed to fetch">>))
    [] o.kind = "abort" -> Throw("AbortError", Str(<<"The operation was aborted.">>))
    [] o.kind = "badjson" -> Throw("SyntaxError", Str(<<"Unexpected token">>))
    [] o.kind = "status" ->
         LET error == IF o.json THEN [detail |-> o.detail, message |-> o.message]
                      ELSE [detail |-> Undefined, message |-> Undefined]
         IN Throw("Error", Or(Or(error.detail, error.message),
                              Str(<<"API request failed">>)))
    [] OTHER -> Return(o.value)

\* what the awaited uploadDocument() call yields for a transport outcome o
uploadDocument(o) ==
  CASE o.kind = "network" -> Throw("TypeError", Str(<<"Failed to fetch">>))
    [] o.kind = "badjson" -> Throw("SyntaxError", Str(<<"Unexpected token">>))
    [] o.kind = "status" ->
         LET body == IF o.json THEN [detail |-> o.detail] ELSE [detail |-> Undefined]
         IN Throw("Error", Or(body.detail, Str(<<"Upload failed">>)))
    [] OTHER -> Return(o.value)

(***************************************************************************)
(* The external analysis service: bodies it may answer a request with      *)
(***************************************************************************)
Clause(text, level, law) ==
  [clause_id |-> Str(<<"CLAUSE 1">>), original_text |-> text,
   topic |-> Str(<<"subject_matter">>), risk_level |-> level,
   risk_explanation |-> text, law_reference |-> law,
   suggested_rewrite |-> Str(<<>>)]

Plain == Str(<<"Hello">>)

Dirty == Str(<<"<script>alert(1)</script>", "Hello", "<b>", "<">>)

WellFormed(id) ==
  [contract_id |-> id, contract_name |-> Plain, overall_risk |-> Str(<<"low">>),
   summary |-> Plain, clauses |-> Arr(<<Clause(Plain, Str(<<"low">>), Null)>>),
   total_issues |-> Num(0), recommendation |-> Str(<<"SIGN">>),
   analyzed_at |-> Str(<<"2025-01-01T00:00:00.000Z">>)]

Payloads(id) ==
  { WellFormed(id),
    [WellFormed(id) EXCEPT !.summary = Dirty, !.contract_name = Dirty,
       !.clauses = Arr(<<Clause(Dirty, Str(<<"high">>), Dirty),
                         Clause(Plain, Str(<<"low">>), Null)>>),
       !.overall_risk = Str(<<"high">>), !.total_issues = Num(3),
       !.recommendation = Str(<<"NEGOTIATE">>)],
    [WellFormed(id) EXCEPT !.overall_risk = Str(<<"extreme">>)],
    [WellFormed(id) EXCEPT !.recommendation = Str(<<"MAYBE">>),
       !.clauses = Arr(<<Clause(Plain, Str(<<"severe">>), Null)>>)],
    [WellFormed(id) EXCEPT !.contract_name = Undefined],
    [WellFormed(id) EXCEPT !.clauses = Undefined],
    [WellFormed(id) EXCEPT !.recommendation = Str(<<"<b>", "SIGN", "</b>">>)] }

ErrorBodies ==
  { [json |-> TRUE, detail |-> Str(<<"Contract not found">>), message |-> Str(<<"Not Found">>)],
    [json |-> TRUE, detail |-> Undefined, message |-> Str(<<"Not Found">>)],
    [json |-> TRUE, detail |-> Str(<<>>), message |-> Undefined],
    [json |-> FALSE, detail |-> Undefined, message |-> Undefined] }

Outcome(kind, value, b) ==
  [kind |-> kind, value |-> value, json |-> b.json, detail |-> b.detail,
   message |-> b.message]

NoBody == [json |-> FALSE, detail |-> Undefined, message |-> Undefined]

\* the identifier the service answers for
RequestedId(req) == IF req.source = "upload" THEN req.upload_id ELSE req.contract_id

\* Every way the transport can settle a request
Transport(req) ==
  {Outcome("json", Obj(p), NoBody) : p \in Payloads(RequestedId(req))}
  \cup {Outcome("status", Undefined, b) : b \in ErrorBodies}
  \cup {Outcome("network", Undefined, NoBody), Outcome("badjson", Undefined, NoBody),
        Outcome("abort", Undefined, NoBody)}

\* An AbortError needs a signal that was handed to fetch and has been
\* aborted; a transport that ignores the signal settles the request like
\* any other.
Possible(run, o) == o.kind = "abort" => run.req.signal /\ run.aborted

(***************************************************************************)
(* AnalysisContent component state                                         *)
(***************************************************************************)
VARIABLES
  variant,      \* which version of AnalysisContent is running
  phase,        \* "new" (constructed), "mounted", "unmounted"
  contractId,   \* searchParams.get("contract")
  uploadId,     \* searchParams.get("upload")
  loading,      \* useState(true)
  error,        \* useState(null)
  analysis,     \* useState(null)
  runs,         \* one entry per run of the effect: closure + request in flight
  sent,         \* request bodies handed to fetch, in order
  analysisRaw,  \* history: the value the stored analysis was computed from
  analysisRun,  \* history: the run whose completion stored the analysis
  last          \* history: the last step, its run and the setters it called

\* the admission check applied to one candidate file
VARIABLES
  candidate,        \* the File handed to validateFile
  validationError   \* what validateFile returned for it, Undefined before the call

\* DocumentUploader and the Home page that mounts it
VARIABLES
  isDragging,       \* DocumentUploader useState(false)
  file,             \* DocumentUploader useState(null)
  uploaderError,    \* DocumentUploader useState(null), its `error`
  selectedContract, \* Home useState(null)
  uploadedFile,     \* Home useState(null)
  isUploading,      \* Home useState(false)
  uploads,          \* files handed to api.uploadDocument, in order
  navigated,        \* the route pushed by handleAnalyze, Null before
  lastFile          \* history: the last file given to processFile and the callbacks made

\* the three lib/sanitize functions applied to one value
VARIABLES
  text,             \* the argument
  cleanText,        \* sanitizeText(text), Undefined before the call
  cleanHtml,        \* sanitizeHtml(text), Undefined before the call
  escaped,          \* escapeHtml(text), Undefined before the call
  cleanTwice        \* the sanitizers applied to their own results

\* ApiClient.request and ApiClient.uploadDocument on one server response
VARIABLES
  apiResponse,      \* what fetch yields for the call
  requestError,     \* message thrown by request, Null when it returned, Undefined before
  uploadError       \* message thrown by uploadDocument, likewise

\* AnalysisContent: the share and export buttons
VARIABLES
  isExporting,      \* useState(false)
  isCopied,         \* useState(false)
  shareError,       \* useState(false), AbortController version only
  clipboard,        \* navigator.clipboard.writeText promises not yet settled
  timers,           \* pending setTimeout callbacks, per indicator they reset
  exporting,        \* an html2canvas promise is not yet settled
  lastExport        \* history: outcome of the last settled export, "none" before

\* ErrorBoundary
VARIABLES
  hasError,         \* this.state.hasError
  boundaryError,    \* this.state.error
  errorInfo,        \* this.state.errorInfo
  fallback,         \* this.props.fallback is given
  caught,           \* an error was thrown and componentDidCatch has not run yet
  retries           \* handleRetry calls so far

sessionVars == <<variant, phase, contractId, uploadId, loading, error, analysis,
                 runs, sent, analysisRaw, analysisRun, last>>

admitVars == <<candidate, validationError>>

uploaderVars == <<isDragging, file, uploaderError, selectedContract, uploadedFile,
                  isUploading, uploads, navigated, lastFile>>

sanitizeVars == <<text, cleanText, cleanHtml, escaped, cleanTwice>>

apiVars == <<apiResponse, requestError, uploadError>>

actionVars == <<isExporting, isCopied, shareError, clipboard, timers, exporting,
                lastExport>>

boundaryVars == <<hasError, boundaryError, errorInfo, fallback, caught, retries>>

vars == <<sessionVars, admitVars, uploaderVars, sanitizeVars, apiVars, actionVars,
          boundaryVars>>

Variants == {"abort", "mounted", "mock"}

ContractIds == {Null, Str(<<"fair">>), Str(<<"abusive">>)}

UploadIds == {Null, Str(<<"upload_abc123">>)}

Step(op, run, kind, value, sets) ==
  [op |-> op, run |-> run, kind |-> kind, value |-> value, sets |-> sets]

SessionInit ==
  /\ variant \in Variants
  /\ phase = "new"
  /\ contractId = Null
  /\ uploadId = Null
  /\ loading = TRUE
  /\ error = Null
  /\ analysis = Null
  /\ runs = <<>>
  /\ sent = <<>>
  /\ analysisRaw = Null
  /\ analysisRun = 0
  /\ last = Step("init", 0, "", Undefined, {})

\* nothing has been validated
AdmitIdle ==
  /\ candidate = Null
  /\ validationError = Undefined

\* Home as constructed, with its DocumentUploader
UploaderInit ==
  /\ isDragging = FALSE
  /\ file = Null
  /\ uploaderError = Null
  /\ selectedContract = Null
  /\ uploadedFile = Null
  /\ isUploading = FALSE
  /\ uploads = <<>>
  /\ navigated = Null
  /\ lastFile = [file |-> Null, error |-> Null, onUpload |-> <<>>]

\* nothing has been sanitized
SanitizeIdle ==
  /\ text = Undefined
  /\ cleanText = Undefined
  /\ cleanHtml = Undefined
  /\ escaped = Undefined
  /\ cleanTwice = Undefined

\* no call has been made
ApiIdle ==
  /\ apiResponse = Undefined
  /\ requestError = Undefined
  /\ uploadError = Undefined

\* the share and export state of AnalysisContent as constructed
ActionInit ==
  /\ isExporting = FALSE
  /\ isCopied = FALSE
  /\ shareError = FALSE
  /\ clipboard = 0
  /\ timers = [copied |-> 0, failed |-> 0]
  /\ exporting = FALSE
  /\ lastExport = "none"

\* ErrorBoundary constructor, default fallback
BoundaryInit ==
  /\ hasError = FALSE
  /\ boundaryError = Null
  /\ errorInfo = Null
  /\ fallback = FALSE
  /\ caught = FALSE
  /\ retries = 0

Init ==
  /\ SessionInit
  /\ AdmitIdle
  /\ UploaderInit
  /\ SanitizeIdle
  /\ ApiIdle
  /\ ActionInit
  /\ BoundaryInit

\* effect cleanup of the run that is being replaced or torn down
Cleanup(run) ==
  CASE variant = "abort" -> [run EXCEPT !.aborted = TRUE]
    [] variant = "mounted" -> [run EXCEPT !.isMounted = FALSE, !.aborted = TRUE]
    [] OTHER -> run

CleanupLast(rs) ==
  IF rs = <<>> THEN rs ELSE [rs EXCEPT ![Len(rs)] = Cleanup(rs[Len(rs)])]

\* the effect's dependency list: [contractId, uploadId], or [contractId] alone
DepsChanged(c, u) ==
  \/ phase = "new"
  \/ IF variant = "mock" THEN c # contractId ELSE <<c, u>> # <<contractId, uploadId>>

\* the branch fetchAnalysis takes before its first await
Dispatch(c, u) ==
  IF variant = "mock"
  THEN IF Truthy(c)
       THEN [pending |-> "request", req |-> analyzeContract("mock", c, Undefined, FALSE)]
       ELSE [pending |-> "timer", req |-> NoRequest]
  ELSE IF Truthy(u)
       THEN [pending |-> "request",
             req |-> analyzeContract("upload", Undefined, u, variant = "abort")]
       ELSE IF Truthy(c)
            THEN [pending |-> "request",
                  req |-> analyzeContract("mock", c, Undefined, variant = "abort")]
            ELSE [pending |-> "none", req |-> NoRequest]

NewRun(c, u) ==
  [contractId |-> c, uploadId |-> u, aborted |-> FALSE, isMounted |-> TRUE,
   pending |-> Dispatch(c, u).pending, req |-> Dispatch(c, u).req]

\* fetchAnalysis entered without setError(null)
StartKeepsError(c, u) ==
  /\ phase # "unmounted"
  /\ Len(runs) < MaxStarts
  /\ DepsChanged(c, u)
  /\ phase' = "mounted"
  /\ contractId' = c
  /\ uploadId' = u
  /\ runs' = Append(CleanupLast(runs), NewRun(c, u))
  /\ sent' = IF NewRun(c, u).pending = "request"
             THEN Append(sent, NewRun(c, u).req) ELSE sent
  /\ IF NewRun(c, u).pending = "none"
     THEN /\ loading' = FALSE
          /\ error' = Str(<<"No contract or upload ID provided">>)
          /\ analysis' = Null
          /\ analysisRaw' = Null
          /\ analysisRun' = 0
          /\ last' = Step("start", Len(runs) + 1, "throw", Undefined,
                          {"loading", "error", "analysis"})
     ELSE /\ loading' = TRUE
          /\ UNCHANGED error
          /\ UNCHANGED <<analysis, analysisRaw, analysisRun>>
          /\ last' = Step("start", Len(runs) + 1, "", Undefined,
                          {"loading", "error"})
  /\ UNCHANGED <<variant, admitVars, uploaderVars, sanitizeVars, apiVars, actionVars,
                 boundaryVars>>

\* Mount, or navigation to other search parameters: the previous run is
\* cleaned up and the effect runs fetchAnalysis up to its first await.  With
\* neither identifier the throw is caught before any await, so the same
\* step ends in the error branch and the finally block.
Start(c, u) ==
  /\ phase # "unmounted"
  /\ Len(runs) < MaxStarts
  /\ DepsChanged(c, u)
  /\ phase' = "mounted"
  /\ contractId' = c
  /\ uploadId' = u
  /\ runs' = Append(CleanupLast(runs), NewRun(c, u))
  /\ sent' = IF NewRun(c, u).pending = "request"
             THEN Append(sent, NewRun(c, u).req) ELSE sent
  /\ IF NewRun(c, u).pending = "none"
     THEN /\ loading' = FALSE
          /\ error' = Str(<<"No contract or upload ID provided">>)
          /\ analysis' = Null
          /\ analysisRaw' = Null
          /\ analysisRun' = 0
          /\ last' = Step("start", Len(runs) + 1, "throw", Undefined,
                          {"loading", "error", "analysis"})
     ELSE /\ loading' = TRUE
          /\ error' = Null
          /\ UNCHANGED <<analysis, analysisRaw, analysisRun>>
          /\ last' = Step("start", Len(runs) + 1, "", Undefined,
                          {"loading", "error"})
  /\ UNCHANGED <<variant, admitVars, uploaderVars, sanitizeVars, apiVars, actionVars,
                 boundaryVars>>

\* The consumer unmounts: only the effect cleanup runs.
Unmount ==
  /\ phase = "mounted"
  /\ phase' = "unmounted"
  /\ runs' = CleanupLast(runs)
  /\ last' = Step("unmount", Len(runs), "", Undefined, {})
  /\ UNCHANGED <<variant, contractId, uploadId, loading, error, analysis,
                 sent, analysisRaw, analysisRun>>
  /\ UNCHANGED <<admitVars, uploaderVars, sanitizeVars, apiVars, actionVars,
                 boundaryVars>>


(***************************************************************************)
(* fetchAnalysis after its await, one operator per version.  Each yields   *)
(* the state the setters leave and the set of setters that were called.    *)
(***************************************************************************)
Update(l, e, a, raw, sets) ==
  [loading |-> l, error |-> e, analysis |-> a, raw |-> raw, sets |-> sets]

\* what reaches the catch block: the rejection, or the TypeError thrown by
\* sanitizeAnalysis on a resolved value without a clause array
Caught(res) ==
  IF res.ok
  THEN Throw("TypeError", Str(<<"Cannot read properties of undefined (reading 'map')">>))
  ELSE res

errorMessage(err) ==
  IF err.name \in {"Error", "TypeError", "SyntaxError", "AbortError"}
  THEN err.message ELSE Str(<<"Analysis failed">>)

fetchAnalysisAbort(run, res) ==
  LET fin == ~run.aborted
      l == IF fin THEN FALSE ELSE loading
      ls == IF fin THEN {"loading"} ELSE {}
  IN IF res.ok /\ ~sanitizeThrows(res.value.v[1])
     THEN Update(l, error, Obj(sanitizeAnalysis(res.value.v[1])), res.value,
                 {"analysis"} \cup ls)
     ELSE IF Caught(res).name = "AbortError"
          THEN Update(l, error, analysis, analysisRaw, ls)
          ELSE Update(l, errorMessage(Caught(res)), Null, Null,
                      {"error", "analysis"} \cup ls)

fetchAnalysisMounted(run, res) ==
  IF ~run.isMounted
  THEN Update(loading, error, analysis, analysisRaw, {})
  ELSE IF res.ok /\ ~sanitizeThrows(res.value.v[1])
       THEN Update(FALSE, error, Obj(sanitizeAnalysisMounted(res.value.v[1])),
                   res.value, {"analysis", "loading"})
       ELSE Update(FALSE, errorMessage(Caught(res)), Null, Null,
                   {"error", "analysis", "loading"})

fetchAnalysisMock(run, res) ==
  IF res.ok
  THEN Update(FALSE, error, res.value, res.value, {"analysis", "loading"})
  ELSE Update(FALSE, Str(<<"Using demo data - API connection failed">>),
              Obj(MOCK_ANALYSIS), Obj(MOCK_ANALYSIS),
              {"analysis", "error", "loading"})

fetchAnalysis(run, res) ==
  CASE variant = "abort" -> fetchAnalysisAbort(run, res)
    [] variant = "mounted" -> fetchAnalysisMounted(run, res)
    [] OTHER -> fetchAnalysisMock(run, res)

StepKind(o) ==
  CASE o.kind = "json" -> "ok"
    [] o.kind = "abort" -> "abort"
    [] OTHER -> "error"

\* The transport settles the request of run i with outcome o and the rest of
\* fetchAnalysis (try / catch / finally) runs to its end.
Settle(i, o) ==
  /\ i \in 1..Len(runs)
  /\ runs[i].pending = "request"
  /\ Possible(runs[i], o)
  /\ LET u == fetchAnalysis(runs[i], request(o))
     IN /\ loading' = u.loading
        /\ error' = u.error
        /\ analysis' = u.analysis
        /\ analysisRaw' = u.raw
        /\ analysisRun' = IF "analysis" \in u.sets
                          THEN (IF u.analysis = Null \/ u.raw = Obj(MOCK_ANALYSIS)
                                THEN 0 ELSE i)
                          ELSE analysisRun
        /\ last' = Step("settle", i, StepKind(o), o.value, u.sets)
  /\ runs' = [runs EXCEPT ![i].pending = "none"]
  /\ UNCHANGED <<variant, phase, contractId, uploadId, sent>>
  /\ UNCHANGED <<admitVars, uploaderVars, sanitizeVars, apiVars, actionVars,
                 boundaryVars>>

\* mock-fallback version without a contract id: the 1500 ms timer fires
TimerFires(i) ==
  /\ i \in 1..Len(runs)
  /\ runs[i].pending = "timer"
  /\ loading' = FALSE
  /\ analysis' = Obj(MOCK_ANALYSIS)
  /\ analysisRaw' = Obj(MOCK_ANALYSIS)
  /\ analysisRun' = 0
  /\ last' = Step("timer", i, "ok", Undefined, {"analysis", "loading"})
  /\ runs' = [runs EXCEPT ![i].pending = "none"]
  /\ UNCHANGED <<variant, phase, contractId, uploadId, error, sent>>
  /\ UNCHANGED <<admitVars, uploaderVars, sanitizeVars, apiVars, actionVars,
                 boundaryVars>>

Next ==
  \/ \E c \in ContractIds, u \in UploadIds : Start(c, u)
  \/ Unmount
  \/ \E i \in 1..Len(runs) : \E o \in Transport(runs[i].req) : Settle(i, o)
  \/ \E i \in 1..Len(runs) : TimerFires(i)

Spec == Init /\ [][Next]_vars

\* the request of run i resolves or rejects
Completes(i) ==
  /\ i \in 1..Len(runs)
  /\ \E o \in Transport(runs[i].req) : Settle(i, o)

\* every request handed to fetch settles and every timer fires; navigation
\* and unmounting are up to the user
FairSpec ==
  /\ Spec
  /\ \A i \in 1..MaxStarts : WF_vars(Completes(i)) /\ WF_vars(TimerFires(i))

TypeOK ==
  /\ variant \in Variants
  /\ phase \in {"new", "mounted", "unmounted"}
  /\ loading \in BOOLEAN
  /\ error.k \in {"null", "str"}
  /\ analysis.k \in {"null", "obj"}
  /\ Len(runs) <= MaxStarts
  /\ Len(sent) <= Len(runs)

(***************************************************************************)
(* components/contract/DocumentUploader: the admission check.  A File is   *)
(* a record of its name (a sequence of characters), its declared media     *)
(* type and its size in bytes.                                             *)
(***************************************************************************)
\* a limit of ten decimal megabytes
MAX_FILE_SIZE_Decimal == 10 * 1000 * 1000

MAX_FILE_SIZE == 10 * 1024 * 1024

\* an allow-list that also lets executables through
ALLOWED_EXTENSIONS_WithExe ==
  {<<".", "p", "d", "f">>, <<".", "d", "o", "c", "x">>, <<".", "t", "x", "t">>,
   <<".", "e", "x", "e">>}

ALLOWED_EXTENSIONS == {<<".", "p", "d", "f">>, <<".", "d", "o", "c", "x">>,
                       <<".", "t", "x", "t">>}

ALLOWED_MIME_TYPES ==
  {"application/pdf",
   "application/vnd.openxmlformats-officedocument.wordprocessingml.document",
   "text/plain"}

UpperCase == <<"A", "B", "C", "D", "E", "F", "G", "H", "I", "J", "K", "L", "M",
               "N", "O", "P", "Q", "R", "S", "T", "U", "V", "W", "X", "Y", "Z">>

LowerCase == <<"a", "b", "c", "d", "e", "f", "g", "h", "i", "j", "k", "l", "m",
               "n", "o", "p", "q", "r", "s", "t", "u", "v", "w", "x", "y", "z">>

\* String.prototype.toLowerCase
toLowerCase(s) ==
  [i \in 1..Len(s) |->
     IF \E j \in 1..Len(UpperCase) : UpperCase[j] = s[i]
     THEN LowerCase[CHOOSE j \in 1..Len(UpperCase) : UpperCase[j] = s[i]]
     ELSE s[i]]

\* String.prototype.split: the segments between the separators, in order;
\* cur is the segment being read
RECURSIVE split(_, _, _)
split(s, sep, cur) ==
  IF s = <<>> THEN <<cur>>
  ELSE IF Head(s) = sep THEN <<cur>> \o split(Tail(s), sep, <<>>)
  ELSE split(Tail(s), sep, Append(cur, Head(s)))

\* Array.prototype.pop on a non-empty array
pop(a) == a[Len(a)]

\* an extension taken from the segment after the first dot
extensionAfterFirstDot(f) ==
  LET segments == split(f.name, ".", <<>>)
  IN <<".">> \o toLowerCase(IF Len(segments) > 1 THEN segments[2] ELSE segments[1])

\* const extension = "." + file.name.split(".").pop()?.toLowerCase()
extension(f) == <<".">> \o toLowerCase(pop(split(f.name, ".", <<>>)))

\* validateFile without its first check
validateFileNoEmptyCheck(f) ==
  IF extension(f) \notin ALLOWED_EXTENSIONS
  THEN Str(<<"Invalid file type. Allowed: ", ".pdf, .docx, .txt">>)
  ELSE IF f.type # "" /\ f.type \notin ALLOWED_MIME_TYPES
       THEN Str(<<"Invalid file type: ", f.type>>)
  ELSE IF f.size > MAX_FILE_SIZE
       THEN Str(<<"File too large. Maximum size is ", "10MB">>)
  ELSE Null

\* validateFile with the size limit checked before the media type
validateFileSizeBeforeType(f) ==
  IF f.size = 0 THEN Str(<<"File is empty">>)
  ELSE IF extension(f) \notin ALLOWED_EXTENSIONS
       THEN Str(<<"Invalid file type. Allowed: ", ".pdf, .docx, .txt">>)
  ELSE IF f.size > MAX_FILE_SIZE
       THEN Str(<<"File too large. Maximum size is ", "10MB">>)
  ELSE IF f.type # "" /\ f.type \notin ALLOWED_MIME_TYPES
       THEN Str(<<"Invalid file type: ", f.type>>)
  ELSE Null

validateFile(f) ==
  IF f.size = 0 THEN Str(<<"File is empty">>)
  ELSE IF extension(f) \notin ALLOWED_EXTENSIONS
       THEN Str(<<"Invalid file type. Allowed: ", ".pdf, .docx, .txt">>)
  ELSE IF f.type # "" /\ f.type \notin ALLOWED_MIME_TYPES
       THEN Str(<<"Invalid file type: ", f.type>>)
  ELSE IF f.size > MAX_FILE_SIZE
       THEN Str(<<"File too large. Maximum size is ", "10MB">>)
  ELSE Null

File(name, type, size) == [name |-> name, type |-> type, size |-> size]

FileNames ==
  {<<"a", ".", "p", "d", "f">>, <<"A", ".", "P", "D", "F">>, <<"p", "d", "f">>,
   <<"a", ".", "p", "d", "f", ".", "e", "x", "e">>, <<"a", ".">>,
   <<"n", ".", "t", "x", "t">>, <<"c", ".", "D", "o", "c", "x">>,
   <<"a", ".", "p", "n", "g">>, <<"D", "O", "C", "X">>, <<"T", "x", "t">>,
   <<"e", "x", "e">>}

FileTypes == ALLOWED_MIME_TYPES \cup {"", "image/png"}

FileSizes == {0, 1, 10 * 1024 * 1024, 10 * 1024 * 1024 + 1}

Files == {File(n, t, z) : n \in FileNames, t \in FileTypes, z \in FileSizes}

\* validateFile is called on the candidate
Validate ==
  /\ candidate # Null
  /\ validationError = Undefined
  /\ validationError' = validateFile(candidate.v[1])
  /\ UNCHANGED <<candidate, sessionVars, uploaderVars, sanitizeVars, apiVars,
                 actionVars, boundaryVars>>

InitAdmit ==
  /\ SessionInit
  /\ variant = "abort"
  /\ UploaderInit
  /\ SanitizeIdle
  /\ ApiIdle
  /\ ActionInit
  /\ BoundaryInit
  /\ candidate \in {Obj(f) : f \in Files}
  /\ validationError = Undefined

NextAdmit == Validate

SpecAdmit == InitAdmit /\ [][NextAdmit]_vars

(***************************************************************************)
(* DocumentUploader handlers and the Home page that mounts the uploader    *)
(* and sends the chosen file with api.uploadDocument.                      *)
(***************************************************************************)
GateFiles ==
  {File(<<"a", ".", "p", "d", "f">>, "application/pdf", 1),
   File(<<"n", ".", "t", "x", "t">>, "", 10 * 1024 * 1024),
   File(<<"a", ".", "p", "n", "g">>, "image/png", 1),
   File(<<"a", ".", "p", "d", "f">>, "image/png", 1),
   File(<<"a", ".", "p", "d", "f">>, "application/pdf", 10 * 1024 * 1024 + 1),
   File(<<"a", ".", "p", "d", "f", ".", "e", "x", "e">>, "application/pdf", 0)}

\* e.dataTransfer.files / e.target.files
FileLists == UNION {[1..n -> GateFiles] : n \in 0..MaxDropped}

SampleIds == {Str(<<"fair">>), Str(<<"abusive">>)}

OnHome == navigated = Null

handleDrag(type) ==
  /\ OnHome
  /\ isDragging' = (IF type \in {"dragenter", "dragover"} THEN TRUE
                    ELSE IF type = "dragleave" THEN FALSE ELSE isDragging)
  /\ UNCHANGED <<file, uploaderError, selectedContract, uploadedFile,
                 isUploading, uploads, navigated, lastFile>>
  /\ UNCHANGED <<sessionVars, admitVars, sanitizeVars, apiVars, actionVars,
                 boundaryVars>>

\* processFile with the early return removed: the callback runs for every file
processFileAlways(selectedFile) ==
  /\ uploaderError' = validateFile(selectedFile)
  /\ file' = Obj(selectedFile)
  /\ uploadedFile' = Obj(selectedFile)
  /\ selectedContract' = Null
  /\ lastFile' = [file |-> Obj(selectedFile), error |-> validateFile(selectedFile),
                  onUpload |-> <<selectedFile>>]

\* a processFile whose rejection leaves the shown file in place
processFileKeepsFile(selectedFile) ==
  LET rejection == validateFile(selectedFile)
  IN IF Truthy(rejection)
     THEN /\ uploaderError' = rejection
          /\ lastFile' = [file |-> Obj(selectedFile), error |-> rejection,
                          onUpload |-> <<>>]
          /\ UNCHANGED <<file, uploadedFile, selectedContract>>
     ELSE /\ uploaderError' = Null
          /\ file' = Obj(selectedFile)
          /\ uploadedFile' = Obj(selectedFile)
          /\ selectedContract' = Null
          /\ lastFile' = [file |-> Obj(selectedFile), error |-> rejection,
                          onUpload |-> <<selectedFile>>]

\* processFile, and Home's onUpload callback when it is invoked
processFile(selectedFile) ==
  LET rejection == validateFile(selectedFile)
  IN IF Truthy(rejection)
     THEN /\ uploaderError' = rejection
          /\ file' = Null
          /\ lastFile' = [file |-> Obj(selectedFile), error |-> rejection,
                          onUpload |-> <<>>]
          /\ UNCHANGED <<uploadedFile, selectedContract>>
     ELSE /\ uploaderError' = Null
          /\ file' = Obj(selectedFile)
          /\ uploadedFile' = Obj(selectedFile)
          /\ selectedContract' = Null
          /\ lastFile' = [file |-> Obj(selectedFile), error |-> rejection,
                          onUpload |-> <<selectedFile>>]

handleDrop(files) ==
  /\ OnHome
  /\ isDragging' = FALSE
  /\ IF Len(files) > 0 THEN processFile(files[1])
     ELSE UNCHANGED <<file, uploaderError, uploadedFile, selectedContract, lastFile>>
  /\ UNCHANGED <<isUploading, uploads, navigated>>
  /\ UNCHANGED <<sessionVars, admitVars, sanitizeVars, apiVars, actionVars,
                 boundaryVars>>

handleChange(files) ==
  /\ OnHome
  /\ IF Len(files) > 0 THEN processFile(files[1])
     ELSE UNCHANGED <<file, uploaderError, uploadedFile, selectedContract, lastFile>>
  /\ UNCHANGED <<isDragging, isUploading, uploads, navigated>>
  /\ UNCHANGED <<sessionVars, admitVars, sanitizeVars, apiVars, actionVars,
                 boundaryVars>>

\* the remove button, rendered while a file is shown
clearFile ==
  /\ OnHome
  /\ file # Null
  /\ file' = Null
  /\ uploaderError' = Null
  /\ UNCHANGED <<isDragging, selectedContract, uploadedFile, isUploading, uploads,
                 navigated, lastFile>>
  /\ UNCHANGED <<sessionVars, admitVars, sanitizeVars, apiVars, actionVars,
                 boundaryVars>>

\* ContractSelector onSelect
onSelect(id) ==
  /\ OnHome
  /\ selectedContract' = id
  /\ uploadedFile' = Null
  /\ UNCHANGED <<isDragging, file, uploaderError, isUploading, uploads, navigated,
                 lastFile>>
  /\ UNCHANGED <<sessionVars, admitVars, sanitizeVars, apiVars, actionVars,
                 boundaryVars>>

\* the Analyze button: rendered with a selection, disabled while uploading
handleAnalyze ==
  /\ OnHome
  /\ Truthy(selectedContract) \/ Truthy(uploadedFile)
  /\ ~isUploading
  /\ IF Truthy(selectedContract)
     THEN /\ navigated' = Str(<<"/analysis?contract=">> \o selectedContract.v)
          /\ UNCHANGED <<isUploading, uploads>>
     ELSE /\ Len(uploads) < MaxUploads
          /\ isUploading' = TRUE
          /\ uploads' = Append(uploads, uploadedFile.v[1])
          /\ UNCHANGED navigated
  /\ UNCHANGED <<isDragging, file, uploaderError, selectedContract, uploadedFile,
                 lastFile>>
  /\ UNCHANGED <<sessionVars, admitVars, sanitizeVars, apiVars, actionVars,
                 boundaryVars>>

UploadResponse(success, upload_id) == [success |-> success, upload_id |-> upload_id]

\* what api.uploadDocument yields: a response body, or a throw
UploadOutcomes ==
  {Return(Obj(UploadResponse(TRUE, Str(<<"upload_abc123">>)))),
   Return(Obj(UploadResponse(TRUE, Undefined))),
   Return(Obj(UploadResponse(FALSE, Str(<<"upload_abc123">>)))),
   Throw("Error", Str(<<"Upload failed">>)),
   Throw("TypeError", Str(<<"Failed to fetch">>))}

\* handleAnalyze after its await
UploadSettles(res) ==
  /\ OnHome
  /\ isUploading
  /\ IF res.ok /\ res.value.v[1].success /\ Truthy(res.value.v[1].upload_id)
     THEN /\ navigated' = Str(<<"/analysis?upload=">> \o res.value.v[1].upload_id.v)
          /\ UNCHANGED isUploading
     ELSE /\ isUploading' = FALSE
          /\ UNCHANGED navigated
  /\ UNCHANGED <<isDragging, file, uploaderError, selectedContract, uploadedFile,
                 uploads, lastFile>>
  /\ UNCHANGED <<sessionVars, admitVars, sanitizeVars, apiVars, actionVars,
                 boundaryVars>>

InitUploader ==
  /\ SessionInit
  /\ variant = "abort"
  /\ AdmitIdle
  /\ UploaderInit
  /\ SanitizeIdle
  /\ ApiIdle
  /\ ActionInit
  /\ BoundaryInit

NextUploader ==
  \/ \E type \in {"dragenter", "dragover", "dragleave"} : handleDrag(type)
  \/ \E files \in FileLists : handleDrop(files)
  \/ \E files \in FileLists : handleChange(files)
  \/ clearFile
  \/ \E id \in SampleIds : onSelect(id)
  \/ handleAnalyze
  \/ \E res \in UploadOutcomes : UploadSettles(res)

SpecUploader == InitUploader /\ [][NextUploader]_vars

(***************************************************************************)
(* lib/sanitize applied to one value                                       *)
(***************************************************************************)
Tokens == {"Hello", "<b>", "</b>", "<script>alert(1)</script>", "<", "b>",
           "&lt;", "b&gt;"}

\* a bare "<" is followed by the end of the string, by markup, by a character
\* reference or by "b>", never by a chunk that would continue it as a
\* malformed tag
WellTokenised(s) ==
  \A i \in 1..Len(s) :
    (s[i] = "<" /\ i < Len(s)) => s[i + 1] \notin {"Hello", "b&gt;"}

Texts ==
  {s \in UNION {[1..n -> Tokens] : n \in 0..MaxLen} : WellTokenised(s)}

\* string | null | undefined
SanitizeInputs == {Null, Undefined} \cup {Str(s) : s \in Texts}

CallSanitizeText ==
  /\ cleanText = Undefined
  /\ cleanText' = sanitizeText(text)
  /\ UNCHANGED <<text, cleanHtml, escaped, cleanTwice>>
  /\ UNCHANGED <<sessionVars, admitVars, uploaderVars, apiVars, actionVars,
                 boundaryVars>>

CallSanitizeHtml ==
  /\ cleanHtml = Undefined
  /\ cleanHtml' = sanitizeHtml(text)
  /\ UNCHANGED <<text, cleanText, escaped, cleanTwice>>
  /\ UNCHANGED <<sessionVars, admitVars, uploaderVars, apiVars, actionVars,
                 boundaryVars>>

CallEscapeHtml ==
  /\ escaped = Undefined
  /\ escaped' = escapeHtml(text)
  /\ UNCHANGED <<text, cleanText, cleanHtml, cleanTwice>>
  /\ UNCHANGED <<sessionVars, admitVars, uploaderVars, apiVars, actionVars,
                 boundaryVars>>

\* each sanitizer is called on its own result
CallAgain ==
  /\ cleanText # Undefined
  /\ cleanHtml # Undefined
  /\ cleanTwice = Undefined
  /\ cleanTwice' = Arr(<<sanitizeText(cleanText), sanitizeHtml(cleanHtml)>>)
  /\ UNCHANGED <<text, cleanText, cleanHtml, escaped>>
  /\ UNCHANGED <<sessionVars, admitVars, uploaderVars, apiVars, actionVars,
                 boundaryVars>>

InitSanitize ==
  /\ SessionInit
  /\ variant = "abort"
  /\ AdmitIdle
  /\ UploaderInit
  /\ ApiIdle
  /\ ActionInit
  /\ BoundaryInit
  /\ text \in SanitizeInputs
  /\ cleanText = Undefined
  /\ cleanHtml = Undefined
  /\ escaped = Undefined
  /\ cleanTwice = Undefined

NextSanitize ==
  \/ CallSanitizeText
  \/ CallSanitizeHtml
  \/ CallEscapeHtml
  \/ CallAgain

SpecSanitize == InitSanitize /\ [][NextSanitize]_vars

(***************************************************************************)
(* lib/api applied to one server response                                  *)
(***************************************************************************)
ErrorDetails ==
  {Undefined, Null, Str(<<>>), Str(<<"Contract not found">>), Str(<<"File too large">>)}

ErrorMessages ==
  {Undefined, Null, Str(<<>>), Str(<<"Not Found">>), Str(<<"Bad Request">>)}

\* non-2xx responses with a JSON body or an unreadable one, a 2xx response
\* and a failed fetch
ApiResponses ==
  {Outcome("status", Undefined, [json |-> TRUE, detail |-> d, message |-> m]) :
     d \in ErrorDetails, m \in ErrorMessages}
  \cup {Outcome("status", Undefined, NoBody), Outcome("network", Undefined, NoBody),
        Outcome("json", Obj([success |-> TRUE]), NoBody)}

\* the message of the rejection, Null for a returned value
Thrown(res) == IF res.ok THEN Null ELSE res.message

CallRequest ==
  /\ requestError = Undefined
  /\ requestError' = Thrown(request(apiResponse))
  /\ UNCHANGED <<apiResponse, uploadError>>
  /\ UNCHANGED <<sessionVars, admitVars, uploaderVars, sanitizeVars, actionVars,
                 boundaryVars>>

CallUploadDocument ==
  /\ uploadError = Undefined
  /\ uploadError' = Thrown(uploadDocument(apiResponse))
  /\ UNCHANGED <<apiResponse, requestError>>
  /\ UNCHANGED <<sessionVars, admitVars, uploaderVars, sanitizeVars, actionVars,
                 boundaryVars>>

InitApi ==
  /\ SessionInit
  /\ variant = "abort"
  /\ AdmitIdle
  /\ UploaderInit
  /\ SanitizeIdle
  /\ ActionInit
  /\ BoundaryInit
  /\ apiResponse \in ApiResponses
  /\ requestError = Undefined
  /\ uploadError = Undefined

NextApi ==
  \/ CallRequest
  \/ CallUploadDocument

SpecApi == InitApi /\ [][NextApi]_vars


(***************************************************************************)
(* What the component renders from its state                               *)
(***************************************************************************)
riskScore ==
  IF Truthy(analysis) THEN Or(RISK_SCORES(analysis.v[1].overall_risk), Num(50))
  ELSE Num(50)

recommendationLabel ==
  IF analysis.v[1].recommendation = Str(<<"SIGN">>) THEN "Safe to Sign"
  ELSE IF analysis.v[1].recommendation = Str(<<"NEGOTIATE">>) THEN "Negotiate First"
  ELSE "Do Not Sign"

showLoading == loading

showError == Truthy(error) /\ ~loading

showResult ==
  IF variant = "mock" THEN ~loading /\ Truthy(analysis)
  ELSE ~loading /\ ~Truthy(error) /\ Truthy(analysis)

\* analysis.clauses.filter(c => c.risk_level === level).length
RECURSIVE CountLevel(_, _)
CountLevel(clauses, level) ==
  IF clauses = <<>> THEN 0
  ELSE (IF Head(clauses).risk_level = level THEN 1 ELSE 0)
       + CountLevel(Tail(clauses), level)

criticalCount ==
  IF Truthy(analysis) /\ analysis.v[1].clauses.k = "arr"
  THEN CountLevel(analysis.v[1].clauses.v, Str(<<"critical">>)) ELSE 0

highCount ==
  IF Truthy(analysis) /\ analysis.v[1].clauses.k = "arr"
  THEN CountLevel(analysis.v[1].clauses.v, Str(<<"high">>)) ELSE 0

Row(label, shows, value) == [label |-> label, shows |-> shows, value |-> value]

\* the rows of the Quick Stats panel: the label, the expression rendered and
\* its value; nothing is rendered when the clause list cannot be read
quickStats ==
  IF showResult /\ analysis.v[1].clauses.k = "arr"
  THEN <<Row("Total Clauses", "analysis.clauses.length",
             Num(Len(analysis.v[1].clauses.v))),
         Row("Critical", "criticalCount", Num(criticalCount)),
         Row("High Risk", "highCount", Num(highCount))>>
  ELSE <<>>

\* one ClauseCard: the props handed over by the clause list
ClauseCard(clause) ==
  [id |-> clause.clause_id, risk |-> clause.risk_level,
   text |-> clause.original_text, explanation |-> clause.risk_explanation,
   lawReference |-> Or(clause.law_reference, Undefined),
   suggestion |-> Or(clause.suggested_rewrite, Undefined)]

\* analysis.clauses.map(clause => <ClauseCard ... />)
clauseCards ==
  IF showResult /\ analysis.v[1].clauses.k = "arr"
  THEN [i \in 1..Len(analysis.v[1].clauses.v) |->
          ClauseCard(analysis.v[1].clauses.v[i])]
  ELSE <<>>

(***************************************************************************)
(* AnalysisContent: share and export.  Both buttons sit in the result      *)
(* view, which also holds the element contentRef points to.                *)
(***************************************************************************)
Outstanding == clipboard + timers.copied + timers.failed

\* the click runs up to the await of navigator.clipboard.writeText
handleShare ==
  /\ phase = "mounted"
  /\ showResult
  /\ Outstanding < MaxShares
  /\ clipboard' = clipboard + 1
  /\ UNCHANGED <<isExporting, isCopied, shareError, timers, exporting, lastExport>>
  /\ UNCHANGED <<sessionVars, admitVars, uploaderVars, sanitizeVars, apiVars,
                 boundaryVars>>

\* a successful copy that leaves the failure indicator as it is
ClipboardSettlesKeepsError(ok) ==
  /\ clipboard > 0
  /\ clipboard' = clipboard - 1
  /\ IF ok
     THEN /\ isCopied' = TRUE
          /\ UNCHANGED shareError
          /\ timers' = [timers EXCEPT !.copied = @ + 1]
     ELSE IF variant = "abort"
          THEN /\ shareError' = TRUE
               /\ isCopied' = FALSE
               /\ timers' = [timers EXCEPT !.failed = @ + 1]
          ELSE UNCHANGED <<isCopied, shareError, timers>>
  /\ UNCHANGED <<isExporting, exporting, lastExport>>
  /\ UNCHANGED <<sessionVars, admitVars, uploaderVars, sanitizeVars, apiVars,
                 boundaryVars>>

\* the clipboard promise settles and the rest of handleShare runs; only the
\* AbortController version has a failure indicator, the isMounted version
\* logs the rejection and the mock-fallback version does not handle it
ClipboardSettles(ok) ==
  /\ clipboard > 0
  /\ clipboard' = clipboard - 1
  /\ IF ok
     THEN /\ isCopied' = TRUE
          /\ shareError' = FALSE
          /\ timers' = [timers EXCEPT !.copied = @ + 1]
     ELSE IF variant = "abort"
          THEN /\ shareError' = TRUE
               /\ isCopied' = FALSE
               /\ timers' = [timers EXCEPT !.failed = @ + 1]
          ELSE UNCHANGED <<isCopied, shareError, timers>>
  /\ UNCHANGED <<isExporting, exporting, lastExport>>
  /\ UNCHANGED <<sessionVars, admitVars, uploaderVars, sanitizeVars, apiVars,
                 boundaryVars>>

\* setTimeout(() => setIsCopied(false), 2000)
CopiedTimerFires ==
  /\ timers.copied > 0
  /\ timers' = [timers EXCEPT !.copied = @ - 1]
  /\ isCopied' = FALSE
  /\ UNCHANGED <<isExporting, shareError, clipboard, exporting, lastExport>>
  /\ UNCHANGED <<sessionVars, admitVars, uploaderVars, sanitizeVars, apiVars,
                 boundaryVars>>

\* setTimeout(() => setShareError(false), 3000)
FailedTimerFires ==
  /\ timers.failed > 0
  /\ timers' = [timers EXCEPT !.failed = @ - 1]
  /\ shareError' = FALSE
  /\ UNCHANGED <<isExporting, isCopied, clipboard, exporting, lastExport>>
  /\ UNCHANGED <<sessionVars, admitVars, uploaderVars, sanitizeVars, apiVars,
                 boundaryVars>>

\* the click runs up to the await of html2canvas; the button is disabled
\* while isExporting
handleExportPDF ==
  /\ phase = "mounted"
  /\ showResult
  /\ ~isExporting
  /\ isExporting' = TRUE
  /\ exporting' = TRUE
  /\ UNCHANGED <<isCopied, shareError, clipboard, timers, lastExport>>
  /\ UNCHANGED <<sessionVars, admitVars, uploaderVars, sanitizeVars, apiVars,
                 boundaryVars>>

\* an export whose completion also drops the stored result
ExportSettlesDropsResult(ok) ==
  /\ exporting
  /\ exporting' = FALSE
  /\ isExporting' = FALSE
  /\ lastExport' = (IF ok THEN "saved" ELSE "failed")
  /\ analysis' = Null
  /\ UNCHANGED <<isCopied, shareError, clipboard, timers>>
  /\ UNCHANGED <<variant, phase, contractId, uploadId, loading, error, runs, sent,
                 analysisRaw, analysisRun, last>>
  /\ UNCHANGED <<admitVars, uploaderVars, sanitizeVars, apiVars, boundaryVars>>

\* html2canvas resolves and the PDF is saved, or something on the way throws
\* and the catch block logs it; the finally block runs either way
ExportSettles(ok) ==
  /\ exporting
  /\ exporting' = FALSE
  /\ isExporting' = FALSE
  /\ lastExport' = (IF ok THEN "saved" ELSE "failed")
  /\ UNCHANGED <<isCopied, shareError, clipboard, timers>>
  /\ UNCHANGED <<sessionVars, admitVars, uploaderVars, sanitizeVars, apiVars,
                 boundaryVars>>

\* the button texts
shareButton ==
  IF isCopied THEN "Link Copied!"
  ELSE IF variant = "abort" /\ shareError THEN "Copy Failed"
  ELSE "Share Results"

exportButton == IF isExporting THEN "Exporting..." ELSE "Export PDF"

\* the session around the buttons: a well-formed answer or a failed fetch
ShareTransport(req) ==
  {Outcome("json", Obj(WellFormed(RequestedId(req))), NoBody),
   Outcome("network", Undefined, NoBody)}

InitShare ==
  /\ SessionInit
  /\ AdmitIdle
  /\ UploaderInit
  /\ SanitizeIdle
  /\ ApiIdle
  /\ ActionInit
  /\ BoundaryInit

NextShare ==
  \/ \E c \in ContractIds, u \in UploadIds : Start(c, u)
  \/ Unmount
  \/ \E i \in 1..Len(runs) : \E o \in ShareTransport(runs[i].req) : Settle(i, o)
  \/ \E i \in 1..Len(runs) : TimerFires(i)
  \/ handleShare
  \/ \E ok \in BOOLEAN : ClipboardSettles(ok)
  \/ CopiedTimerFires
  \/ FailedTimerFires
  \/ handleExportPDF
  \/ \E ok \in BOOLEAN : ExportSettles(ok)

SpecShare == InitShare /\ [][NextShare]_vars

\* every clipboard write and every export settles, every timer fires
FairSpecShare ==
  /\ SpecShare
  /\ WF_vars(\E ok \in BOOLEAN : ClipboardSettles(ok))
  /\ WF_vars(CopiedTimerFires)
  /\ WF_vars(FailedTimerFires)
  /\ WF_vars(\E ok \in BOOLEAN : ExportSettles(ok))

(***************************************************************************)
(* components/ErrorBoundary.  React calls getDerivedStateFromError while   *)
(* it renders, and componentDidCatch when it commits the fallback, before  *)
(* any event handler can run.                                              *)
(***************************************************************************)
\* what a child can throw: Error objects, and values that are no Error
ThrownValues ==
  {Obj([message |-> Str(<<"render failed">>)]),
   Obj([message |-> Str(<<"x is undefined">>)]),
   Obj([message |-> Str(<<>>)]),
   Str(<<"oops">>),
   Null,
   Undefined}

\* errorInfo.componentStack as React passes it
ComponentStacks == {Str(<<"at Child">>), Str(<<"at Child", "at Page">>), Str(<<>>),
                    Undefined, Null}

\* a child throws while the children are rendered
getDerivedStateFromError(e) ==
  /\ ~hasError
  /\ ~caught
  /\ hasError' = TRUE
  /\ boundaryError' = e
  /\ caught' = TRUE
  /\ UNCHANGED <<errorInfo, fallback, retries>>
  /\ UNCHANGED <<sessionVars, admitVars, uploaderVars, sanitizeVars, apiVars,
                 actionVars>>

componentDidCatch(componentStack) ==
  /\ caught
  /\ caught' = FALSE
  /\ errorInfo' = Or(componentStack, Null)
  /\ UNCHANGED <<hasError, boundaryError, fallback, retries>>
  /\ UNCHANGED <<sessionVars, admitVars, uploaderVars, sanitizeVars, apiVars,
                 actionVars>>

\* a retry that keeps the component stack of the last error
handleRetryKeepsInfo ==
  /\ hasError
  /\ ~caught
  /\ ~fallback
  /\ retries < MaxRetries
  /\ hasError' = FALSE
  /\ boundaryError' = Null
  /\ retries' = retries + 1
  /\ UNCHANGED <<errorInfo, fallback, caught>>
  /\ UNCHANGED <<sessionVars, admitVars, uploaderVars, sanitizeVars, apiVars,
                 actionVars>>

\* the Try Again button of the default error UI
handleRetry ==
  /\ hasError
  /\ ~caught
  /\ ~fallback
  /\ retries < MaxRetries
  /\ hasError' = FALSE
  /\ boundaryError' = Null
  /\ errorInfo' = Null
  /\ retries' = retries + 1
  /\ UNCHANGED <<fallback, caught>>
  /\ UNCHANGED <<sessionVars, admitVars, uploaderVars, sanitizeVars, apiVars,
                 actionVars>>

\* ErrorBoundary.render
render ==
  IF hasError
  THEN IF fallback THEN "fallback" ELSE "default error UI"
  ELSE "children"

\* the boundary is constructed with or without a fallback
InitBoundary ==
  /\ SessionInit
  /\ variant = "abort"
  /\ AdmitIdle
  /\ UploaderInit
  /\ SanitizeIdle
  /\ ApiIdle
  /\ ActionInit
  /\ hasError = FALSE
  /\ boundaryError = Null
  /\ errorInfo = Null
  /\ fallback \in BOOLEAN
  /\ caught = FALSE
  /\ retries = 0

NextBoundary ==
  \/ \E e \in ThrownValues : getDerivedStateFromError(e)
  \/ \E componentStack \in ComponentStacks : componentDidCatch(componentStack)
  \/ handleRetry

SpecBoundary == InitBoundary /\ [][NextBoundary]_vars

(***************************************************************************)
(* Vocabulary of the properties                                            *)
(***************************************************************************)
Current(i) == i = Len(runs) /\ phase = "mounted"

Superseded(i) == i < Len(runs)

ValidDescriptor(run) == Truthy(run.contractId) # Truthy(run.uploadId)

ExpectedRequest(run) ==
  IF Truthy(run.uploadId)
  THEN [source |-> "upload", contract_id |-> Undefined, upload_id |-> run.uploadId]
  ELSE [source |-> "mock", contract_id |-> run.contractId, upload_id |-> Undefined]

RequestBody(req) ==
  [source |-> req.source, contract_id |-> req.contract_id, upload_id |-> req.upload_id]

InError == ~loading /\ Truthy(error) /\ analysis = Null

InSuccess == ~loading /\ error = Null /\ Truthy(analysis)

ClausesOf(p) == IF p.clauses.k = "arr" THEN p.clauses.v ELSE <<>>

OutOfSet(p) ==
  \/ p.overall_risk.k = "str" /\ p.overall_risk \notin RiskLevel
  \/ p.recommendation.k = "str" /\ p.recommendation \notin Recommendation
  \/ \E j \in 1..Len(ClausesOf(p)) :
       ClausesOf(p)[j].risk_level.k = "str" /\ ClausesOf(p)[j].risk_level \notin RiskLevel

MissingRequired(p) ==
  \/ Undefined \in {p.contract_id, p.contract_name, p.overall_risk, p.summary,
                    p.clauses, p.total_issues, p.recommendation, p.analyzed_at}
  \/ \E j \in 1..Len(ClausesOf(p)) :
       Undefined \in {ClausesOf(p)[j].clause_id, ClausesOf(p)[j].original_text,
                      ClausesOf(p)[j].topic, ClausesOf(p)[j].risk_level,
                      ClausesOf(p)[j].risk_explanation,
                      ClausesOf(p)[j].suggested_rewrite}

TextSanitized(stored, raw) ==
  /\ stored.contract_id = sanitizeText(raw.contract_id)
  /\ stored.contract_name = sanitizeText(raw.contract_name)
  /\ stored.summary = sanitizeText(raw.summary)
  /\ Len(ClausesOf(stored)) = Len(ClausesOf(raw))
  /\ \A j \in 1..Len(ClausesOf(stored)) :
       LET s == ClausesOf(stored)[j]
           r == ClausesOf(raw)[j]
       IN /\ s.clause_id = sanitizeText(r.clause_id)
          /\ s.original_text = sanitizeText(r.original_text)
          /\ s.topic = sanitizeText(r.topic)
          /\ s.risk_explanation = sanitizeText(r.risk_explanation)
          /\ s.law_reference = IF Truthy(r.law_reference)
                                THEN sanitizeText(r.law_reference)
                                ELSE s.law_reference
          /\ s.law_reference \in {Null, sanitizeText(r.law_reference)}
          /\ s.suggested_rewrite = sanitizeText(r.suggested_rewrite)

(***************************************************************************)
(* Properties                                                              *)
(***************************************************************************)

\* C1: a successful response of a superseded run never writes the stored
\* result, and once the newest run has settled a stored result that came
\* from a response is the newest run's.
C1_StaleSuccessSuppressed ==
  /\ (last.op = "settle" /\ Superseded(last.run)) => analysisRun # last.run
  /\ (phase = "mounted" /\ runs # <<>> /\ runs[Len(runs)].pending = "none"
      /\ Truthy(analysis) /\ analysisRun # 0)
       => analysisRun = Len(runs)

\* C2: the rejection of a superseded run (AbortError or any late failure)
\* calls none of setError, setAnalysis, setLoading.
C2_SupersededNeverSurfaced ==
  (last.op = "settle" /\ last.kind \in {"abort", "error"} /\ Superseded(last.run))
    => last.sets = {}

\* C3: after unmount every request in flight has had its cancellation
\* requested on a signal the transport holds, and no completion calls a
\* state setter.
C3_NoUpdateAfterUnmount ==
  phase = "unmounted" =>
    /\ \A i \in 1..Len(runs) :
         runs[i].pending = "request" => runs[i].req.signal /\ runs[i].aborted
    /\ last.op \in {"settle", "timer"} => last.sets = {}

\* C4: a start with a valid descriptor issues the one request built from it,
\* carrying only its identifier, and requests sent = valid starts.
C4_OneRequestPerValidStart ==
  /\ \A i \in 1..Len(runs) :
       ValidDescriptor(runs[i]) => RequestBody(runs[i].req) = ExpectedRequest(runs[i])
  /\ Len(sent) = Cardinality({i \in 1..Len(runs) : ValidDescriptor(runs[i])})

\* C5: a start whose descriptor has both identifiers or neither issues no
\* request and fails at once.
C5_InvalidDescriptorFailsFast ==
  /\ \A i \in 1..Len(runs) :
       ~ValidDescriptor(runs[i]) => runs[i].req = NoRequest
  /\ (last.op = "start" /\ ~ValidDescriptor(runs[last.run])) => InError

\* C6: when the current request fails, the session is in Error: loading
\* false, a non-empty message, a null result.
C6_FailureEndsInError ==
  (last.op = "settle" /\ last.kind = "error" /\ Current(last.run)) => InError

\* C7: a response with an enum value outside its closed set ends the current
\* run in Error, and no stored result has its risk or recommendation
\* rendered through the fallback branch.
C7_OutOfSetEnumRejected ==
  /\ (last.op = "settle" /\ last.kind = "ok" /\ Current(last.run)
      /\ OutOfSet(last.value.v[1])) => InError
  /\ Truthy(analysis) =>
       /\ riskScore = Num(50) => analysis.v[1].overall_risk = Str(<<"medium">>)
       /\ recommendationLabel = "Do Not Sign"
            => analysis.v[1].recommendation = Str(<<"DO_NOT_SIGN">>)

\* C8: a response lacking a required field ends the current run in Error
\* with a null result, and no stored result comes from such a response.
C8_MissingFieldRejected ==
  /\ (last.op = "settle" /\ last.kind = "ok" /\ Current(last.run)
      /\ MissingRequired(last.value.v[1])) => InError
  /\ Truthy(analysis) => ~MissingRequired(analysisRaw.v[1])

\* C9: the stored result is null or every free-text field of it equals
\* sanitizeText of the received field.
C9_StoredResultSanitized ==
  Truthy(analysis) => TextSanitized(analysis.v[1], analysisRaw.v[1])

\* C10: when loading is false the session is in Success (result, no error)
\* or in Error (non-empty message, no result), and exactly one of the error
\* view and the result view is shown.
C10_StateConsistent ==
  ~loading =>
    /\ InSuccess \/ InError
    /\ showError # showResult

(***************************************************************************)
(* Admission check: vocabulary of the claims                               *)
(***************************************************************************)
Validated == candidate # Null /\ validationError # Undefined

\* the characters after the last "." of the name, the whole name without one
FinalSegment(name) ==
  LET dots == {i \in 1..Len(name) : name[i] = "."}
      lastDot == IF dots = {} THEN 0
                 ELSE CHOOSE i \in dots : \A j \in dots : j <= i
  IN SubSeq(name, lastDot + 1, Len(name))

ExtensionSupported(f) ==
  toLowerCase(FinalSegment(f.name))
    \in {<<"p", "d", "f">>, <<"d", "o", "c", "x">>, <<"t", "x", "t">>}

MediaTypeAccepted(f) ==
  \/ f.type = ""
  \/ f.type \in {"application/pdf", "text/plain",
                 "application/vnd.openxmlformats-officedocument.wordprocessingml.document"}

RejectedEmptyFile == validationError = Str(<<"File is empty">>)

RejectedExtension ==
  validationError = Str(<<"Invalid file type. Allowed: ", ".pdf, .docx, .txt">>)

RejectedMediaType ==
  validationError = Str(<<"Invalid file type: ", candidate.v[1].type>>)

RejectedTooLarge ==
  validationError = Str(<<"File too large. Maximum size is ", "10MB">>)

Admitted == validationError = Null

\* C11: a candidate of size 0 is rejected as an empty file, whatever its
\* name and declared media type are.
C11_EmptyFileRejected ==
  (Validated /\ candidate.v[1].size = 0) => RejectedEmptyFile

C11_Witness ==
  /\ Validated
  /\ candidate.v[1].size = 0
  /\ ~ExtensionSupported(candidate.v[1])
  /\ ~MediaTypeAccepted(candidate.v[1])
  /\ RejectedEmptyFile

\* C12 as stated: every candidate whose lower-cased final name segment is
\* not pdf, docx or txt is rejected for its extension.
C12_AnyUnsupportedExtensionRejected ==
  (Validated /\ ~ExtensionSupported(candidate.v[1])) => RejectedExtension

\* C12: every candidate of non-zero size whose lower-cased final name
\* segment is not pdf, docx or txt is rejected for its extension, even when
\* its size and declared media type pass their checks.
C12_UnsupportedExtensionRejected ==
  (Validated /\ candidate.v[1].size # 0 /\ ~ExtensionSupported(candidate.v[1]))
    => RejectedExtension

C12_Witness ==
  /\ Validated
  /\ candidate.v[1].name = <<"a", ".", "p", "d", "f", ".", "e", "x", "e">>
  /\ candidate.v[1].size = 1
  /\ candidate.v[1].type = "application/pdf"
  /\ RejectedExtension

\* C13: exactly one reason is reported, the first failing check in the order
\* empty file, extension, media type, size limit: a reason is reported
\* exactly when its check fails and every check before it passes.
C13_FirstFailingCheckReported ==
  Validated =>
    LET f == candidate.v[1]
    IN /\ RejectedEmptyFile <=> f.size = 0
       /\ RejectedExtension <=> (f.size # 0 /\ ~ExtensionSupported(f))
       /\ RejectedMediaType
            <=> (f.size # 0 /\ ExtensionSupported(f) /\ ~MediaTypeAccepted(f))
       /\ RejectedTooLarge
            <=> (f.size # 0 /\ ExtensionSupported(f) /\ MediaTypeAccepted(f)
                 /\ f.size > 10 * 1024 * 1024)

C13_Witness ==
  /\ Validated
  /\ ExtensionSupported(candidate.v[1])
  /\ ~MediaTypeAccepted(candidate.v[1])
  /\ candidate.v[1].size > 10 * 1024 * 1024
  /\ RejectedMediaType

\* C14: a candidate is admitted exactly when 0 < size <= 10 * 1024 * 1024,
\* its lower-cased extension is pdf, docx or txt and its declared media type
\* is empty or allowed; a size one byte over the limit is reported as too
\* large.
C14_AdmittedExactlyWhen ==
  Validated =>
    LET f == candidate.v[1]
    IN /\ Admitted <=> (/\ 0 < f.size
                        /\ f.size <= 10 * 1024 * 1024
                        /\ ExtensionSupported(f)
                        /\ MediaTypeAccepted(f))
       /\ (f.size = 10 * 1024 * 1024 + 1 /\ ExtensionSupported(f)
           /\ MediaTypeAccepted(f)) => RejectedTooLarge

C14_Witness ==
  /\ Validated
  /\ candidate.v[1].size = 10 * 1024 * 1024
  /\ candidate.v[1].type = ""
  /\ candidate.v[1].name = <<"A", ".", "P", "D", "F">>
  /\ Admitted


(***************************************************************************)
(* Admission gate: vocabulary of the claims                                *)
(***************************************************************************)
Passes(f) == validateFile(f) = Null

\* the last step was processFile on a file that validateFile rejected
RejectionStep == lastFile' # lastFile /\ Truthy(lastFile'.error)

\* C15: onUpload and api.uploadDocument only ever receive files for which
\* validateFile returned no error, and a step that rejects a candidate
\* changes neither the page's selection and upload state nor the analysis
\* session.
C15_RejectedNeverLeavesGate ==
  /\ [](/\ \A i \in 1..Len(uploads) : Passes(uploads[i])
        /\ \A i \in 1..Len(lastFile.onUpload) : Passes(lastFile.onUpload[i])
        /\ Truthy(uploadedFile) => Passes(uploadedFile.v[1]))
  /\ [][RejectionStep =>
          UNCHANGED <<selectedContract, uploadedFile, isUploading, uploads,
                      navigated, sessionVars>>]_vars

C15_Witness ==
  /\ Truthy(lastFile.error)
  /\ lastFile.onUpload = <<>>
  /\ file = Null
  /\ Truthy(uploadedFile)
  /\ Len(uploads) = 1
  /\ isUploading

(***************************************************************************)
(* Sanitizers: vocabulary of the claims                                    *)
(***************************************************************************)
Falsy(x) == x \in {Null, Undefined, Str(<<>>)}

IsString(x) == x.k = "str"

\* C16: sanitizeText and sanitizeHtml applied to their own result return
\* that result, and sanitizeText of a script element followed by Hello is
\* Hello.
C16_SanitizersIdempotent ==
  /\ cleanTwice # Undefined => cleanTwice = Arr(<<cleanText, cleanHtml>>)
  /\ (text = Str(<<"<script>alert(1)</script>", "Hello">>) /\ cleanText # Undefined)
       => cleanText = Str(<<"Hello">>)

C16_Witness ==
  /\ text = Str(<<"<script>alert(1)</script>", "Hello", "<">>)
  /\ cleanText = Str(<<"Hello", "&lt;">>)
  /\ cleanTwice = Arr(<<cleanText, cleanHtml>>)

\* C17: each of sanitizeText, sanitizeHtml and escapeHtml returns a string
\* for every input, the empty string for null, undefined and "".
C17_SanitizersTotal ==
  /\ cleanText # Undefined
       => IsString(cleanText) /\ (Falsy(text) => cleanText = Str(<<>>))
  /\ cleanHtml # Undefined
       => IsString(cleanHtml) /\ (Falsy(text) => cleanHtml = Str(<<>>))
  /\ escaped # Undefined
       => IsString(escaped) /\ (Falsy(text) => escaped = Str(<<>>))

C17_Witness ==
  /\ text = Null
  /\ cleanText = Str(<<>>)
  /\ cleanHtml = Str(<<>>)
  /\ escaped = Str(<<>>)

\* C18: the stored total_issues is the value received, whatever the clause
\* list holds, and the result view shows it in a row of its own next to the
\* clause count.
C18_TotalIssuesVerbatim ==
  Truthy(analysis) =>
    /\ analysis.v[1].total_issues = analysisRaw.v[1].total_issues
    /\ showResult =>
         \E i \in 1..Len(quickStats) :
           /\ quickStats[i].shows = "analysis.total_issues"
           /\ quickStats[i].value = analysis.v[1].total_issues

\* a request is in flight and no cancellation has reached it
Uncancelled(i) ==
  /\ runs[i].pending = "request"
  /\ ~(runs[i].req.signal /\ runs[i].aborted)

\* C19: every in-flight request whose cancellation has not been requested
\* belongs to the most recent start, so there is at most one.
C19_OneCurrentRequest ==
  \A i \in 1..Len(runs) : Uncancelled(i) => i = Len(runs)

\* C20: a start with a valid descriptor leaves the session loading for that
\* descriptor with the error cleared and the response still outstanding,
\* whatever state it started from.
C20_RestartIsLoading ==
  (last.op = "start" /\ ValidDescriptor(runs[last.run])) =>
    /\ loading
    /\ error = Null
    /\ showLoading /\ ~showError /\ ~showResult
    /\ last.run = Len(runs)
    /\ contractId = runs[last.run].contractId
    /\ uploadId = runs[last.run].uploadId
    /\ runs[last.run].pending # "none"

\* a second start while the first run had ended in Error or in Success
C20_Witness ==
  /\ last.op = "start"
  /\ last.run = 2
  /\ ValidDescriptor(runs[2])
  /\ runs[1].pending = "none"
  /\ loading
  /\ error = Null

\* C21: while the view stays mounted, a loading session reaches Success or
\* Error with the loading flag false, whatever the order in which the
\* requests of superseded runs complete.
C21_LoadingEnds ==
  (phase = "mounted" /\ loading)
    ~> (phase = "unmounted" \/ (~loading /\ (InSuccess \/ InError)))

\* C22: the stored overall_risk, recommendation and clause risk levels are
\* the received values, untouched by the sanitizer, and a current response
\* with one low-risk clause and recommendation SIGN is stored with that
\* clause low and the recommendation SIGN.
C22_EnumsStoredAsReceived ==
  /\ Truthy(analysis) =>
       /\ analysis.v[1].overall_risk = analysisRaw.v[1].overall_risk
       /\ analysis.v[1].recommendation = analysisRaw.v[1].recommendation
       /\ \A j \in 1..Len(ClausesOf(analysis.v[1])) :
            ClausesOf(analysis.v[1])[j].risk_level
              = ClausesOf(analysisRaw.v[1])[j].risk_level
  /\ (last.op = "settle" /\ last.kind = "ok" /\ Current(last.run)
      /\ last.value = Obj(WellFormed(RequestedId(runs[last.run].req))))
       => /\ ~loading
          /\ Truthy(analysis)
          /\ ClausesOf(analysis.v[1])[1].risk_level = Str(<<"low">>)
          /\ analysis.v[1].recommendation = Str(<<"SIGN">>)

\* stored clause s is received clause r with its free text sanitized
ClauseSanitized(s, r) ==
  /\ s.clause_id = sanitizeText(r.clause_id)
  /\ s.original_text = sanitizeText(r.original_text)
  /\ s.topic = sanitizeText(r.topic)
  /\ s.risk_explanation = sanitizeText(r.risk_explanation)
  /\ s.law_reference \in {Null, sanitizeText(r.law_reference)}
  /\ Truthy(r.law_reference) => s.law_reference = sanitizeText(r.law_reference)
  /\ s.suggested_rewrite = sanitizeText(r.suggested_rewrite)
  /\ s.risk_level = r.risk_level

\* C23: the stored clauses are as many as the received ones, clause i of the
\* stored result is the sanitized clause i of the response, and the clause
\* cards are rendered one per stored clause in the stored order.
C23_ClauseOrderPreserved ==
  Truthy(analysis) =>
    /\ Len(ClausesOf(analysis.v[1])) = Len(ClausesOf(analysisRaw.v[1]))
    /\ \A j \in 1..Len(ClausesOf(analysis.v[1])) :
         ClauseSanitized(ClausesOf(analysis.v[1])[j], ClausesOf(analysisRaw.v[1])[j])
    /\ showResult =>
         /\ Len(clauseCards) = Len(ClausesOf(analysis.v[1]))
         /\ \A j \in 1..Len(clauseCards) :
              clauseCards[j].id = ClausesOf(analysis.v[1])[j].clause_id

(***************************************************************************)
(* API errors: vocabulary of the claims                                    *)
(***************************************************************************)
HasDetail(o) == o.json /\ Truthy(o.detail)

HasMessage(o) == o.json /\ Truthy(o.message)

GenericFailure == {Str(<<"API request failed">>), Str(<<"Upload failed">>)}

\* err is the message the precedence detail, message, generic picks for o
ChosenByPrecedence(o, err) ==
  IF HasDetail(o) THEN err = o.detail
  ELSE IF HasMessage(o) THEN err = o.message
  ELSE err \in GenericFailure

\* C24: on a non-success status both request and uploadDocument throw the
\* body's detail when it is non-empty, else its message when that is
\* non-empty, else a generic message; a body that is not JSON gives the
\* generic message.
C24_ErrorMessagePrecedence ==
  apiResponse.kind = "status" =>
    /\ requestError # Undefined => ChosenByPrecedence(apiResponse, requestError)
    /\ uploadError # Undefined => ChosenByPrecedence(apiResponse, uploadError)

(***************************************************************************)
(* Share and export                                                        *)
(***************************************************************************)
\* a step of handleShare or handleExportPDF: the click, a settling promise
\* or one of the reset timers
ShareOrExportStep == actionVars' # actionVars

\* C25: no step of handleShare or handleExportPDF, whether the click, a
\* success, a failure or a timer, changes the loading flag, the error or the
\* stored result, and none issues an analysis request.
C25_ShareExportOutsideSession ==
  [][ShareOrExportStep => UNCHANGED <<loading, error, analysis, sent, runs>>]_vars

\* an export that failed and a copy that succeeded while the session was
\* loading again
C25_Witness ==
  /\ phase = "mounted"
  /\ loading
  /\ lastExport = "failed"
  /\ isCopied

\* the clipboard write of a share settled: a success starts the 2-second
\* timer, a failure does not
ShareSucceeded == clipboard' < clipboard /\ timers'.copied > timers.copied
ShareFailed == clipboard' < clipboard /\ timers'.copied = timers.copied
ExportFailed == exporting /\ ~exporting' /\ lastExport' = "failed"

\* C26: a share that succeeded shows the copied indicator and one that failed
\* shows the failure indicator, both indicators are reset later without a
\* further click, the exporting flag is eventually false after an export,
\* and an export that failed shows a failure indicator.
C26_IndicatorsSelfClear ==
  /\ [][ShareSucceeded => shareButton' = "Link Copied!"]_vars
  /\ [][ShareFailed => shareButton' = "Copy Failed"]_vars
  /\ [][ExportFailed => exportButton' \notin {"Exporting...", "Export PDF"}]_vars
  /\ isCopied ~> ~isCopied
  /\ shareError ~> ~shareError
  /\ isExporting ~> ~isExporting

(***************************************************************************)
(* The uploader's file and error                                           *)
(***************************************************************************)
\* a drop or a selection hands processFile the candidate f
Processes(f) ==
  \E files \in FileLists :
    /\ Len(files) > 0
    /\ files[1] = f
    /\ handleDrop(files) \/ handleChange(files)

\* the candidate is rejected, or accepted; the remove button is used
Rejects(f) == Truthy(validateFile(f)) /\ Processes(f)
Accepts(f) == ~Truthy(validateFile(f)) /\ Processes(f)
Clears == clearFile

\* C27: the uploader never shows a file and an error message together; a
\* rejected candidate leaves no file and its message, an accepted candidate
\* leaves the file and no message, and clearFile leaves neither.
C27_FileXorError ==
  /\ [](~(Truthy(file) /\ Truthy(uploaderError)))
  /\ [][\A f \in GateFiles :
         Rejects(f) => file' = Null /\ uploaderError' = validateFile(f)]_vars
  /\ [][\A f \in GateFiles :
         Accepts(f) => file' = Obj(f) /\ uploaderError' = Null]_vars
  /\ [][Clears => file' = Null /\ uploaderError' = Null]_vars

\* a rejection that came after an accepted file: the message is shown, the
\* file is gone from the uploader and Home still holds it
C27_Witness ==
  /\ Truthy(lastFile.error)
  /\ uploaderError = lastFile.error
  /\ file = Null
  /\ Truthy(uploadedFile)
  /\ ~isUploading

(***************************************************************************)
(* ErrorBoundary                                                           *)
(***************************************************************************)
Cleared == ~hasError /\ boundaryError = Null /\ errorInfo = Null

\* C29: the boundary starts cleared and is cleared by every handleRetry; a
\* caught error sets hasError with the thrown value recorded; whenever
\* hasError is false, error and errorInfo are null; the children are
\* rendered exactly when hasError is false.
C29_BoundaryStateMachine ==
  /\ Cleared
  /\ [][handleRetry => Cleared']_vars
  /\ [][\A e \in ThrownValues :
         getDerivedStateFromError(e) => hasError' /\ boundaryError' = e]_vars
  /\ [](~hasError => boundaryError = Null /\ errorInfo = Null)
  /\ [](render = "children" <=> ~hasError)

\* the children render again after a retry that followed an error with a
\* component stack
C29_Witness ==
  /\ retries > 0
  /\ Cleared
  /\ render = "children"

(***************************************************************************)
(* The share button's two indicators                                       *)
(***************************************************************************)
\* one of the reset timers fires
TimerStep ==
  \/ timers'.copied < timers.copied
  \/ timers'.failed < timers.failed

\* C28: the copied indicator and the share-failure indicator are never both
\* true, and a reset timer, whichever attempt started it, never turns an
\* indicator on.
C28_IndicatorsExclusive ==
  /\ [](~(isCopied /\ shareError))
  /\ [][TimerStep => (isCopied' => isCopied) /\ (shareError' => shareError)]_vars

\* a copy succeeded while the 3-second timer of an earlier failed attempt
\* was still pending
C28_Witness ==
  /\ isCopied
  /\ ~shareError
  /\ timers.failed > 0
  /\ timers.copied > 0

(***************************************************************************)
(* The extension validateFile uses                                         *)
(***************************************************************************)
HasDot(name) == \E i \in 1..Len(name) : name[i] = "."
EndsInDot(name) == name # <<>> /\ name[Len(name)] = "."

\* the media type that goes with the extension of the name
Agrees(f) ==
  LET ext == toLowerCase(FinalSegment(f.name))
  IN \/ ext = <<"p", "d", "f">> /\ f.type = "application/pdf"
     \/ ext = <<"t", "x", "t">> /\ f.type = "text/plain"
     \/ /\ ext = <<"d", "o", "c", "x">>
        /\ f.type = "application/vnd.openxmlformats-officedocument.wordprocessingml.document"

\* the name has no allowed final segment: it ends in a dot, or a segment
\* that is not allowed follows its last dot
TrailingSegmentNotAllowed(f) ==
  \/ EndsInDot(f.name)
  \/ HasDot(f.name) /\ ~ExtensionSupported(f)

\* C30 as stated: the extension is the lower-cased part of the name after
\* its last dot, the whole name when it has no dot; a non-empty file named
\* pdf, docx or txt in any letter case passes the extension check; every
\* name that ends in a dot or in a segment that is not allowed is rejected
\* for its extension; a supported extension with an accepted media type is
\* admitted whether or not the two agree.
C30_AnyTrailingSegmentRejected ==
  Validated =>
    LET f == candidate.v[1]
    IN /\ extension(f) = <<".">> \o toLowerCase(FinalSegment(f.name))
       /\ (f.size # 0 /\ ~HasDot(f.name) /\ ExtensionSupported(f))
            => ~RejectedExtension
       /\ TrailingSegmentNotAllowed(f) => RejectedExtension
       /\ (f.size # 0 /\ ExtensionSupported(f) /\ MediaTypeAccepted(f) /\ ~Agrees(f))
            => ~RejectedExtension /\ ~RejectedMediaType

\* C30: the same, with the rejection for the extension stated for
\* candidates of non-zero size; a candidate of size 0 is rejected as an
\* empty file before its name is looked at.
C30_LastSegmentIsExtension ==
  Validated =>
    LET f == candidate.v[1]
    IN /\ extension(f) = <<".">> \o toLowerCase(FinalSegment(f.name))
       /\ (f.size # 0 /\ ~HasDot(f.name) /\ ExtensionSupported(f))
            => ~RejectedExtension
       /\ (f.size # 0 /\ TrailingSegmentNotAllowed(f)) => RejectedExtension
       /\ (f.size # 0 /\ ExtensionSupported(f) /\ MediaTypeAccepted(f) /\ ~Agrees(f))
            => ~RejectedExtension /\ ~RejectedMediaType

\* a file named DOCX, declared as plain text, is admitted
C30_Witness ==
  /\ Validated
  /\ candidate.v[1].name = <<"D", "O", "C", "X">>
  /\ candidate.v[1].type = "text/plain"
  /\ candidate.v[1].size = 1
  /\ Admitted

====
